---- MODULE Spec2Model ----
(***************************************************************************)
(* Model of the API gateway of src/gateway/main.py: the credential cache   *)
(* (verify_jwt), the process-local token bucket and the shared fixed-window *)
(* counter (rate_limiter), and the admission middleware that composes them  *)
(* and proxies to the backend (auth_and_rate_limit).                        *)
(*                                                                          *)
(* Time is counted in ticks of 1/TicksPerSec second.  time.time() and       *)
(* time.monotonic() are read from the same clock `now`; the counter store   *)
(* uses that clock for key expiry as well.                                  *)
(***************************************************************************)
EXTENDS Integers, Sequences, FiniteSets, TLC

\* ---------------------------------------------------------------- bounds
TicksPerSec == 3
MaxTicks == 3
NumRequests == 2
MaxArrivals == 3
MaxRemote == 3

\* ------------------------------------------------------ program constants
GLOBAL_RATE == 2
CACHE_TTL == 60
KEY_TTL == 1

Min(a, b) == IF a <= b THEN a ELSE b
WindowTicks == TicksPerSec

CacheTicks == CACHE_TTL * TicksPerSec

\* ------------------------------------------------------------ input sets
NoSub == "nosub"
Identities == {"a", "b"}
FarExp == 10 * CACHE_TTL
\* credentials: was the signature made with JWT_SECRET, the sub claim, the
\* exp claim (epoch seconds)
Tokens ==
  { [sig |-> TRUE,  sub |-> "a",   exp |-> FarExp],
    [sig |-> TRUE,  sub |-> "b",   exp |-> 0],
    [sig |-> FALSE, sub |-> "a",   exp |-> FarExp],
    [sig |-> TRUE,  sub |-> NoSub, exp |-> FarExp] }

\* Authorization headers, as <<scheme, credentials>>: none, a good token under
\* another scheme, and Bearer with each token
NoHeader == <<>>
Headers ==
  {NoHeader} \cup {<<"Basic", t>> : t \in {x \in Tokens : x.sig /\ x.sub = "a"}}
             \cup {<<"Bearer", t>> : t \in Tokens}

\* request paths, as sequences of path pieces
ApiPath == <<"/api", "/resource">>
BypassPaths == { <<"/health">>, <<"/metrics">>, <<"/health", "z">> }

\* the requests sent to the gateway: <<path, Authorization header>>
Inputs == {<<ApiPath, h>> : h \in Headers} \cup {<<p, NoHeader>> : p \in BypassPaths}

SharedInputs == {<<ApiPath, <<"Bearer", t>>>> : t \in {x \in Tokens : x.sig /\ x.sub = "a"}}

\* requests with no credential, a good one and a forged one
LiveInputs ==
  {<<ApiPath, NoHeader>>}
    \cup {<<ApiPath, <<"Bearer", t>>>> : t \in {x \in Tokens : x.sub = "a"}}

\* requests with a correctly signed credential of some identity
LocalInputs ==
  {<<ApiPath, <<"Bearer", t>>>> : t \in {x \in Tokens : x.sig /\ x.sub \in Identities}}

BackendResponses ==
  { [status |-> 200, fmt |-> "json", data |-> "ok"],
    [status |-> 200, fmt |-> "text", data |-> "plain"],
    [status |-> 503, fmt |-> "text", data |-> "busy"] }

Requests == 1..NumRequests
NoOne == 0
NoTTL == -1
NoKey == <<>>
NoBody == [fmt |-> "none", data |-> ""]

VARIABLES
  now,            \* the clock, in ticks
  jwt_cache,      \* token -> [payload, expire]   (main.py:65)
  local_tokens,   \* main.py:59
  last_refill,    \* main.py:60
  bucket_lock,    \* holder of bucket_lock, or NoOne  (main.py:62)
  store,          \* the counter store: key -> [count, ttl]
  req,            \* per request: position and locals of auth_and_rate_limit
  allowed,        \* history: key -> number of requests the shared limiter let pass
  exceeded,       \* history: keys whose counter has exceeded GLOBAL_RATE
  seen,           \* history: identities that have reached the local limiter
  arrivals,       \* history: number of requests received
  remote,         \* history: number of requests admitted by other instances
  last,           \* the response sent by the step just taken, with its request
  passes,         \* history: the times read at main.py:104 by the requests that
                  \* passed the local limiter, in order
  decodes         \* history: token -> number of calls of jwt.decode (main.py:92)

vars == <<now, jwt_cache, local_tokens, last_refill, bucket_lock, store, req,
          allowed, exceeded, seen, arrivals, remote, last, passes, decodes>>

hist == <<allowed, exceeded, seen, arrivals, remote>>

\* the histories that only some specifications record
ghost == <<passes, decodes>>

\* -------------------------------------------------------------- helpers
StartsWith(s, p) == Len(s) >= Len(p) /\ SubSeq(s, 1, Len(p)) = p

\* main.py:146-148
Bypassed(path) == StartsWith(path, <<"/health">>) \/ StartsWith(path, <<"/metrics">>)

\* (mutant) any Authorization header is taken for a bearer token
HasAuthorization(h) == h # NoHeader
\* main.py:152
HasBearer(h) == h # NoHeader /\ h[1] = "Bearer"

\* jwt.decode(token, JWT_SECRET, algorithms=["HS256"]), main.py:92:
\* the signature matches and exp has not passed (whole seconds)
NowSec(t) == t \div TicksPerSec
DecodeOk(tok, t) == tok.sig /\ tok.exp >= NowSec(t)
Payload(tok) == [sub |-> tok.sub, exp |-> tok.exp]

\* (mutant) an entry is used whatever its expiry
CacheHitStale(cache, tok, t) == tok \in DOMAIN cache
\* main.py:87-88
CacheHit(cache, tok, t) == tok \in DOMAIN cache /\ cache[tok].expire > t

\* main.py:94
CacheExpiry(tok, t) == t + CacheTicks

Put(f, k, v) == [x \in DOMAIN f \cup {k} |-> IF x = k THEN v ELSE f[x]]

\* created: when the request's INCR made its key (history, for count = 1)
\* now: the time rate_limiter read at main.py:104, while it holds the lock
\* serial: what main.py:104-115 gives when run in one piece at the moment the
\* request takes the lock (history)
NoSerial == <<FALSE, 0, 0>>
IdleReq == [pc |-> "idle", path |-> <<>>, header |-> NoHeader, api_key |-> NoSub,
            key |-> NoKey, count |-> 0, created |-> 0, now |-> 0, serial |-> NoSerial,
            trace |-> <<>>]

NoResponse == [path |-> <<>>, header |-> NoHeader, status |-> 0, body |-> NoBody,
               unhandled |-> FALSE, trace |-> <<>>]

Init ==
  /\ now = 0
  /\ jwt_cache = [t \in {} |-> 0]
  /\ local_tokens = GLOBAL_RATE
  /\ last_refill = 0
  /\ bucket_lock = NoOne
  /\ store = [k \in {} |-> 0]
  /\ req = [r \in Requests |-> IdleReq]
  /\ allowed = [k \in {} |-> 0]
  /\ exceeded = {}
  /\ seen = {}
  /\ arrivals = 0
  /\ remote = 0
  /\ last = NoResponse
  /\ passes = <<>>
  /\ decodes = [t \in {} |-> 0]

\* the response to request q: status, body, and the stage event ev that ends it
Response(q, st, bd, unh, ev) ==
  [path |-> q.path, header |-> q.header, status |-> st, body |-> bd,
   unhandled |-> unh, trace |-> Append(q.trace, ev)]

\* a JSONResponse built by the middleware itself, main.py:153, 159, 168
Detail(q, st, detail, ev) ==
  Response(q, st, [fmt |-> "json", data |-> detail], FALSE, ev)

\* an exception that leaves auth_and_rate_limit uncaught: the server's error
\* handler answers 500
Unhandled(q, ev) ==
  Response(q, 500, [fmt |-> "text", data |-> "Internal Server Error"], TRUE, ev)

\* (mutant) the handler goes on to the proxy after building its response
ReturnedFallsThrough(q) == [q EXCEPT !.pc = "forward"]
\* the handler of request q has returned or raised: nothing of it runs on
Returned(q) == IdleReq

\* ------------------------------------------------------------- the clock
\* the counter store drops the keys whose expiry time has come
Purge(s, t) == [k \in {x \in DOMAIN s : s[x].ttl = NoTTL \/ t < s[x].ttl} |-> s[k]]

Tick ==
  /\ now < MaxTicks
  /\ now' = now + 1
  /\ store' = Purge(store, now + 1)
  /\ UNCHANGED <<jwt_cache, local_tokens, last_refill, bucket_lock, req, hist, ghost>>
  /\ last' = NoResponse

\* a long pause of the clients: the clock moves on by the cache lifetime, or by
\* one tick less (once)
Sleep ==
  /\ now <= MaxTicks
  /\ \E d \in {CacheTicks - 1, CacheTicks} :
       /\ now' = now + d
       /\ store' = Purge(store, now + d)
  /\ UNCHANGED <<jwt_cache, local_tokens, last_refill, bucket_lock, req, hist, ghost>>
  /\ last' = NoResponse

\* ------------------------------------------------- verify_jwt, main.py:84-97
\* the verdict on a token at time t: <<ok, payload, cache afterwards, whether
\* jwt.decode was called>>
verify_jwt(cache, tok, t) ==
  IF CacheHit(cache, tok, t)
  THEN <<TRUE, cache[tok].payload, cache, FALSE>>
  ELSE IF DecodeOk(tok, t)
  THEN <<TRUE, Payload(tok),
         Put(cache, tok, [payload |-> Payload(tok), expire |-> CacheExpiry(tok, t)]), TRUE>>
  ELSE <<FALSE, Payload(tok), cache, TRUE>>

\* ------------------------------------- auth_and_rate_limit, main.py:145-161
Arrive(r, path, header) ==
  /\ req[r].pc = "idle"
  /\ arrivals < MaxArrivals
  /\ arrivals' = arrivals + 1
  /\ LET q == [IdleReq EXCEPT !.path = path, !.header = header]
         v == verify_jwt(jwt_cache, header[2], now)
     IN IF Bypassed(path)
        THEN /\ req' = [req EXCEPT ![r] = [q EXCEPT !.pc = "bypass"]]
             /\ UNCHANGED jwt_cache
             /\ last' = NoResponse
        ELSE IF ~HasBearer(header)
        THEN /\ last' = Detail(q, 401, "Missing token", "AUTH_MISSING")
             /\ req' = [req EXCEPT ![r] = Returned(q)]
             /\ UNCHANGED jwt_cache
        ELSE /\ jwt_cache' = v[3]
             /\ IF ~v[1]
                THEN /\ last' = Unhandled(q, "AUTH_INVALID")
                     /\ req' = [req EXCEPT ![r] = Returned(q)]
                ELSE IF v[2].sub = NoSub
                THEN /\ last' = Detail(q, 401, "Invalid token payload", "AUTH_NOSUB")
                     /\ req' = [req EXCEPT ![r] = Returned(q)]
                ELSE /\ req' = [req EXCEPT ![r] =
                          [q EXCEPT !.pc = "lock", !.api_key = v[2].sub,
                                    !.trace = <<"AUTH_OK">>]]
                     /\ last' = NoResponse
  /\ UNCHANGED <<now, local_tokens, last_refill, bucket_lock, store,
                 allowed, exceeded, seen, remote>>

\* call_next for a bypassed path (main.py:149): the gateway's own /health or
\* /metrics route answers, any other bypassed path has no route
Bypass(r) ==
  /\ req[r].pc = "bypass"
  /\ last' = Response(req[r],
                      IF req[r].path \in {<<"/health">>, <<"/metrics">>} THEN 200 ELSE 404,
                      [fmt |-> "json", data |-> "local"], FALSE, "BYPASS")
  /\ req' = [req EXCEPT ![r] = IdleReq]
  /\ UNCHANGED <<now, jwt_cache, local_tokens, last_refill, bucket_lock, store, hist, ghost>>

\* ------------------------------------------------ rate_limiter, main.py:101-124
\* (mutant) the critical section is entered without the lock
LockIgnored(lock) == TRUE
\* main.py:103, async with bucket_lock
LockFree(lock) == lock = NoOne

\* main.py:105-107: refill = elapsed * GLOBAL_RATE, and the test refill >= 1
RefillDue(lr, t) == (t - lr) * GLOBAL_RATE >= TicksPerSec
\* int(refill)
RefillAmount(lr, t) == ((t - lr) * GLOBAL_RATE) \div TicksPerSec
\* (mutant) the refill is not capped
RefilledNoCap(tokens, amount) == tokens + amount
\* main.py:108
Refilled(tokens, amount) == Min(GLOBAL_RATE, tokens + amount)
\* (mutant) the bucket counts as empty one token early
ExhaustedBelowOne(tokens) == tokens <= 1
\* main.py:111
Exhausted(tokens) == tokens <= 0

\* main.py:104-115 in one piece on the bucket <<tokens, lr>> at time t:
\* <<the request passes, local_tokens afterwards, last_refill afterwards>>
LockedSection(tokens, lr, t) ==
  LET tk  == IF RefillDue(lr, t) THEN Refilled(tokens, RefillAmount(lr, t)) ELSE tokens
      lr2 == IF RefillDue(lr, t) THEN t ELSE lr
  IN IF Exhausted(tk) THEN <<FALSE, tk, lr2>> ELSE <<TRUE, tk - 1, lr2>>

\* main.py:103-109: take the lock, read the clock, refill
Refill(r) ==
  /\ req[r].pc = "lock"
  /\ LockFree(bucket_lock)
  /\ bucket_lock' = r
  /\ IF RefillDue(last_refill, now)
     THEN /\ local_tokens' = Refilled(local_tokens, RefillAmount(last_refill, now))
          /\ last_refill' = now
     ELSE UNCHANGED <<local_tokens, last_refill>>
  /\ req' = [req EXCEPT ![r] = [@ EXCEPT !.pc = "consume", !.now = now,
                 !.serial = LockedSection(local_tokens, last_refill, now)]]
  /\ UNCHANGED <<now, jwt_cache, store, allowed, exceeded, seen, arrivals, remote, ghost>>
  /\ last' = NoResponse

\* main.py:118
KeyOf(id, t) == <<id, NowSec(t)>>

\* main.py:103, the end of async with: the holder r gives the lock back
Released(lock, r) == IF lock = r THEN NoOne ELSE lock
\* (mutant) the lock is not given back when the section raises
KeptOnRaise(lock, r) == lock
\* main.py:103, 112: async with is left by the HTTPException
ReleasedOnRaise(lock, r) == Released(lock, r)

\* main.py:111-118: consume or reject (caught at main.py:165-168), release the
\* lock, name the counter key
Consume(r) ==
  /\ req[r].pc = "consume"
  /\ seen' = seen \cup {req[r].api_key}
  /\ IF Exhausted(local_tokens)
     THEN /\ last' = Detail(req[r], 429, "Too many requests (local limit)", "LOCAL_REJECT")
          /\ req' = [req EXCEPT ![r] = Returned(@)]
          /\ bucket_lock' = ReleasedOnRaise(bucket_lock, r)
          /\ UNCHANGED local_tokens
     ELSE /\ local_tokens' = local_tokens - 1
          /\ bucket_lock' = Released(bucket_lock, r)
          /\ req' = [req EXCEPT ![r] = [@ EXCEPT !.pc = "incr", !.now = 0, !.serial = NoSerial,
                         !.key = KeyOf(req[r].api_key, now),
                         !.trace = Append(@, "LOCAL_OK")]]
          /\ last' = NoResponse
  /\ UNCHANGED <<now, jwt_cache, last_refill, store, allowed, exceeded, arrivals, remote>>

\* the counter store: a key exists until its expiry time
Alive(s, k, t) == k \in DOMAIN s /\ (s[k].ttl = NoTTL \/ t < s[k].ttl)
\* INCR key
IncrValue(s, k, t) == IF Alive(s, k, t) THEN s[k].count + 1 ELSE 1
StoreIncr(s, k, t) ==
  IF Alive(s, k, t)
  THEN [s EXCEPT ![k].count = @ + 1]
  ELSE Put(s, k, [count |-> 1, ttl |-> NoTTL])
\* EXPIRE key seconds
StoreExpire(s, k, t, seconds) ==
  IF Alive(s, k, t) THEN [s EXCEPT ![k].ttl = t + seconds * TicksPerSec] ELSE s

\* (mutant) the request that reaches the rate is denied already
OverLimitAtRate(count) == count >= GLOBAL_RATE
\* main.py:123
OverLimit(count) == count > GLOBAL_RATE

Count(f, k) == IF k \in DOMAIN f THEN f[k] ELSE 0

\* main.py:123-124 and the return to auth_and_rate_limit, main.py:164-168
Decide(r, count) ==
  IF OverLimit(count)
  THEN /\ last' = Detail(req[r], 429, "Too many requests (global limit)", "GLOBAL_REJECT")
       /\ req' = [req EXCEPT ![r] = Returned(@)]
       /\ UNCHANGED allowed
  ELSE /\ req' = [req EXCEPT ![r] = [@ EXCEPT !.pc = "forward", !.count = count,
                      !.created = 0, !.trace = Append(@, "GLOBAL_OK")]]
       /\ allowed' = Put(allowed, req[r].key, Count(allowed, req[r].key) + 1)
       /\ last' = NoResponse

\* main.py:119-120: the store executes the INCR and the count comes back
Incr(r) ==
  /\ req[r].pc = "incr"
  /\ LET k == req[r].key
         c == IncrValue(store, k, now)
     IN /\ store' = StoreIncr(store, k, now)
        /\ exceeded' = IF OverLimit(c) THEN exceeded \cup {k} ELSE exceeded
        /\ IF c = 1
           THEN /\ req' = [req EXCEPT ![r] = [@ EXCEPT !.pc = "expire", !.count = c,
                                                         !.created = now]]
                /\ UNCHANGED allowed
                /\ last' = NoResponse
           ELSE Decide(r, c)
  /\ UNCHANGED <<now, jwt_cache, local_tokens, last_refill, bucket_lock, seen, arrivals, remote,
                 ghost>>

\* main.py:121: the store executes the EXPIRE; then main.py:123
Expire(r) ==
  /\ req[r].pc = "expire"
  /\ store' = StoreExpire(store, req[r].key, now, KEY_TTL)
  /\ Decide(r, req[r].count)
  /\ UNCHANGED <<now, jwt_cache, local_tokens, last_refill, bucket_lock, exceeded, seen,
                 arrivals, remote, ghost>>

\* rate_limiter's main.py:118-124 as run by another gateway instance that
\* shares the store, for a request of identity id that it admitted locally
Remote(id) ==
  /\ remote < MaxRemote
  /\ remote' = remote + 1
  /\ LET k == KeyOf(id, now)
         c == IncrValue(store, k, now)
         s1 == StoreIncr(store, k, now)
     IN /\ store' = IF c = 1 THEN StoreExpire(s1, k, now, KEY_TTL) ELSE s1
        /\ exceeded' = IF OverLimit(c) THEN exceeded \cup {k} ELSE exceeded
        /\ allowed' = IF OverLimit(c) THEN allowed ELSE Put(allowed, k, Count(allowed, k) + 1)
  /\ last' = NoResponse
  /\ UNCHANGED <<now, jwt_cache, local_tokens, last_refill, bucket_lock, req, seen, arrivals,
                 ghost>>

\* main.py:119, 121: the store cannot be reached; the error raised by the
\* client is not an HTTPException, so main.py:165 does not catch it
StoreFail(r) ==
  /\ req[r].pc \in {"incr", "expire"}
  /\ last' = Unhandled(req[r], "STORE_FAULT")
  /\ req' = [req EXCEPT ![r] = IdleReq]
  /\ UNCHANGED <<now, jwt_cache, local_tokens, last_refill, bucket_lock, store, hist, ghost>>

\* ------------------------------------------- the proxy, main.py:170-185
\* main.py:179-183: the body is parsed as JSON, or else taken as text, and
\* rendered again by JSONResponse
Relay(resp) ==
  IF resp.fmt = "json" THEN [fmt |-> "json", data |-> resp.data]
  ELSE [fmt |-> "json_string", data |-> resp.data]

Forward(r, resp) ==
  /\ req[r].pc = "forward"
  /\ last' = Response(req[r], resp.status, Relay(resp), FALSE, "FORWARD")
  /\ req' = [req EXCEPT ![r] = IdleReq]
  /\ UNCHANGED <<now, jwt_cache, local_tokens, last_refill, bucket_lock, store, hist, ghost>>

\* (mutant) the proxy has no except clause
BadGatewayRaised(q) == Unhandled(q, "FORWARD_FAILED")
\* main.py:184-185: any exception of the backend call becomes a 502
BadGateway(q) == Detail(q, 502, "error", "FORWARD_FAILED")

\* main.py:172-177 raises: connection refused, timeout, any other exception
ForwardFail(r) ==
  /\ req[r].pc = "forward"
  /\ last' = BadGateway(req[r])
  /\ req' = [req EXCEPT ![r] = IdleReq]
  /\ UNCHANGED <<now, jwt_cache, local_tokens, last_refill, bucket_lock, store, hist, ghost>>

Next ==
  \/ Tick
  \/ \E r \in Requests, i \in Inputs : Arrive(r, i[1], i[2]) /\ UNCHANGED ghost
  \/ \E r \in Requests : Bypass(r)
  \/ \E r \in Requests : Refill(r)
  \/ \E r \in Requests : Consume(r) /\ UNCHANGED ghost
  \/ \E r \in Requests : Incr(r)
  \/ \E r \in Requests : Expire(r)
  \/ \E r \in Requests : StoreFail(r)
  \/ \E r \in Requests, resp \in BackendResponses : Forward(r, resp)
  \/ \E r \in Requests : ForwardFail(r)

\* one gateway process and its clients
Spec == Init /\ [][Next]_vars

\* several gateway instances on one counter store: this process serves the
\* requests of identity "a", the other instances admit requests of "a" too
NextShared ==
  \/ Tick
  \/ \E r \in Requests, i \in SharedInputs : Arrive(r, i[1], i[2]) /\ UNCHANGED ghost
  \/ \E r \in Requests : Refill(r)
  \/ \E r \in Requests : Consume(r) /\ UNCHANGED ghost
  \/ \E r \in Requests : Incr(r)
  \/ \E r \in Requests : Expire(r)
  \/ \E r \in Requests : StoreFail(r)
  \/ Remote("a")
  \/ \E r \in Requests, resp \in BackendResponses : Forward(r, resp)
  \/ \E r \in Requests : ForwardFail(r)

SpecShared == Init /\ [][NextShared]_vars

\* one gateway process and clients with good credentials, with the history
\* of the local limiter
PassedLocal(r) == req[r].pc = "consume" /\ req'[r].pc = "incr"

NextLocal ==
  \/ Tick
  \/ \E r \in Requests, i \in LocalInputs : Arrive(r, i[1], i[2]) /\ UNCHANGED ghost
  \/ \E r \in Requests : Refill(r)
  \/ \E r \in Requests :
       /\ Consume(r)
       /\ passes' = IF PassedLocal(r) THEN Append(passes, req[r].now) ELSE passes
       /\ UNCHANGED decodes
  \/ \E r \in Requests : Incr(r)
  \/ \E r \in Requests : Expire(r)
  \/ \E r \in Requests : StoreFail(r)
  \/ \E r \in Requests, resp \in BackendResponses : Forward(r, resp)
  \/ \E r \in Requests : ForwardFail(r)

SpecLocal == Init /\ [][NextLocal]_vars

\* one gateway process over more than a cache lifetime, with the history of
\* the calls of jwt.decode
Decoded(header) == verify_jwt(jwt_cache, header[2], now)[4]

NextCache ==
  \/ Tick
  \/ Sleep
  \/ \E r \in Requests, i \in LocalInputs :
       /\ Arrive(r, i[1], i[2])
       /\ decodes' = IF Decoded(i[2])
                      THEN Put(decodes, i[2][2], Count(decodes, i[2][2]) + 1)
                      ELSE decodes
       /\ UNCHANGED passes
  \/ \E r \in Requests : Refill(r)
  \/ \E r \in Requests : Consume(r) /\ UNCHANGED ghost
  \/ \E r \in Requests : Incr(r)
  \/ \E r \in Requests : Expire(r)
  \/ \E r \in Requests : StoreFail(r)
  \/ \E r \in Requests, resp \in BackendResponses : Forward(r, resp)
  \/ \E r \in Requests : ForwardFail(r)

SpecCache == Init /\ [][NextCache]_vars

\* one gateway process in which the last request slot takes requests with a
\* good credential and meets no fault of the store, while the other requests
\* end in every way; each coroutine that can run is run, and the store answers
Later == NumRequests

NextLive ==
  \/ Tick
  \/ \E r \in Requests \ {Later}, i \in LiveInputs : Arrive(r, i[1], i[2]) /\ UNCHANGED ghost
  \/ \E i \in SharedInputs : Arrive(Later, i[1], i[2]) /\ UNCHANGED ghost
  \/ \E r \in Requests : Refill(r)
  \/ \E r \in Requests : Consume(r) /\ UNCHANGED ghost
  \/ \E r \in Requests : Incr(r)
  \/ \E r \in Requests : Expire(r)
  \/ \E r \in Requests \ {Later} : StoreFail(r)
  \/ \E r \in Requests, resp \in BackendResponses : Forward(r, resp)
  \/ \E r \in Requests : ForwardFail(r)

Fairness ==
  \A r \in Requests :
    /\ SF_vars(Refill(r))
    /\ WF_vars(Consume(r) /\ UNCHANGED ghost)
    /\ WF_vars(Incr(r))
    /\ WF_vars(Expire(r))

SpecLive == Init /\ [][NextLive]_vars /\ Fairness

\* ------------------------------------------------------------ properties
ExpTicks(tok) == tok.exp * TicksPerSec
RejectEvents == {"AUTH_MISSING", "AUTH_INVALID", "AUTH_NOSUB", "LOCAL_REJECT",
                 "GLOBAL_REJECT", "STORE_FAULT"}
ContactEvents == {"FORWARD", "FORWARD_FAILED"}
Events(resp) == {resp.trace[i] : i \in 1..Len(resp.trace)}
Ended(resp, ev) == Len(resp.trace) > 0 /\ resp.trace[Len(resp.trace)] = ev
Admitted == <<"AUTH_OK", "LOCAL_OK", "GLOBAL_OK">>

\* C1: every entry of the verification cache expires no later than 60s after
\* now (hence after its verification) and no later than the credential's exp,
\* so that no live entry belongs to a credential whose exp has passed.
C1_CacheExpiryBounded ==
  \A tok \in DOMAIN jwt_cache :
    /\ jwt_cache[tok].expire <= now + CacheTicks
    /\ jwt_cache[tok].expire <= ExpTicks(tok)
    /\ (jwt_cache[tok].expire > now => tok.exp >= NowSec(now))

\* C2: a Bearer credential that fails verification (bad signature, or exp in
\* the past when the request is made) is answered 401 at AUTH: the request
\* goes no further, and the bucket and the shared counters are left alone.
FailsVerification(tok, t) == ~tok.sig \/ tok.exp < NowSec(t)
C2_InvalidCredential401 ==
  [][ /\ \A r \in Requests :
           (req[r].pc = "idle" /\ req'[r].pc = "lock")
             => ~FailsVerification(req'[r].header[2], now)
      /\ Ended(last', "AUTH_INVALID")
           => /\ last'.status = 401
              /\ ~last'.unhandled
              /\ UNCHANGED <<local_tokens, last_refill, store>> ]_vars

\* C3: the backend is contacted only for a request that passed AUTH, then
\* LOCAL_LIMIT, then GLOBAL_LIMIT; a rejected request gets an error response
\* made by the gateway and causes no backend call.
C3_ForwardOnlyAfterAdmission ==
  /\ \A r \in Requests : req[r].pc = "forward" => req[r].trace = Admitted
  /\ \A ev \in ContactEvents : ev \in Events(last) => last.trace = Append(Admitted, ev)
  /\ \A ev \in RejectEvents :
       ev \in Events(last) => /\ Events(last) \cap ContactEvents = {}
                              /\ last.status \in {401, 429, 500}
                              /\ last.body.fmt # "json_string"
C3_Witness == last.trace = Append(Admitted, "FORWARD") /\ last.status = 200

\* C4: the first request of an identity the process has not seen before
\* passes local admission.
C4_FirstRequestPassesLocal ==
  [][ \A r \in Requests :
        (req[r].pc = "consume" /\ req'[r].pc # "consume" /\ req[r].api_key \notin seen)
          => req'[r].pc = "incr" ]_vars

\* C5: for every (identity, window) key the shared limiter lets at most
\* GLOBAL_RATE requests pass, over all the gateway instances.
C5_AtMostRatePerKey == \A k \in DOMAIN allowed : allowed[k] <= GLOBAL_RATE

\* C6: once the counter of a key has exceeded GLOBAL_RATE every further
\* increment of that key returns a count over the rate, so that the request
\* is denied; while a key exists its count never decreases; a rejected
\* request stays counted.
C6_MonotonicAdmission ==
  [][ /\ \A k \in exceeded \cap DOMAIN store' :
           (k \notin DOMAIN store \/ store'[k].count # store[k].count)
             => OverLimit(store'[k].count)
      /\ \A k \in DOMAIN store \cap DOMAIN store' : store'[k].count >= store[k].count
      /\ \A k \in exceeded' \ exceeded : k \in DOMAIN store' /\ OverLimit(store'[k].count)
    ]_vars

\* C7: every key of the counter store gets its expiry from the request whose
\* increment created it, no later than 2 window lengths after its creation;
\* a key is without expiry only while that request is about to set it.
C7_KeyExpiresWithinTwoWindows ==
  [][ /\ \A k \in DOMAIN store' :
           store'[k].ttl = NoTTL
             => \E r \in Requests : req'[r].pc = "expire" /\ req'[r].key = k
      /\ \A r \in Requests :
           (req[r].pc = "expire" /\ req'[r].pc # "expire" /\ req[r].key \in DOMAIN store')
             => /\ store'[req[r].key].ttl # NoTTL
                /\ store'[req[r].key].ttl <= req[r].created + 2 * WindowTicks
    ]_vars

\* C8: when the counter store cannot be reached the request is denied with a
\* structured response; the fault does not leave the pipeline unhandled; the
\* backend is not contacted.
C8_StoreFaultHandled ==
  Ended(last, "STORE_FAULT")
    => /\ ~last.unhandled
       /\ last.body.fmt = "json"
       /\ Events(last) \cap ContactEvents = {}

\* C9: 0 <= local_tokens <= capacity in every reachable state.
C9_TokensWithinBounds == 0 <= local_tokens /\ local_tokens <= GLOBAL_RATE
C9_Witness ==
  /\ local_tokens = GLOBAL_RATE
  /\ last_refill > 0
  /\ seen # {}
  /\ \E r \in Requests : req[r].pc = "consume"

\* C10: the refill step loses no elapsed time: what the bucket holds after it,
\* counting the time since last_refill at GLOBAL_RATE per second, is
\* min(capacity, tokens + R*T) (all in 1/TicksPerSec of a token).
Credit(tokens, lr, t) ==
  Min(GLOBAL_RATE * TicksPerSec, tokens * TicksPerSec + GLOBAL_RATE * (t - lr))
C10_RefillLosesNoTime ==
  [][ \A r \in Requests :
        (req[r].pc = "lock" /\ req'[r].pc = "consume")
          => Credit(local_tokens', last_refill', now) = Credit(local_tokens, last_refill, now)
    ]_vars

\* C11: from the full bucket and as long as no refill has taken place, the
\* first GLOBAL_RATE (= capacity) requests that come to the local limiter
\* pass it and every later one is answered 429 with the local-limit reason,
\* the counter store being left as it is.
C11_BurstThenLocalReject ==
  [][ \A r \in Requests :
        (req[r].pc = "consume" /\ req'[r].pc # "consume" /\ last_refill = 0)
          => IF Len(passes) < GLOBAL_RATE
             THEN req'[r].pc = "incr" /\ last' = NoResponse
             ELSE /\ req'[r].pc = "idle"
                  /\ Ended(last', "LOCAL_REJECT")
                  /\ last'.status = 429
                  /\ last'.body = [fmt |-> "json", data |-> "Too many requests (local limit)"]
                  /\ store' = store
    ]_vars
C11_Witness ==
  /\ Ended(last, "LOCAL_REJECT")
  /\ last_refill = 0
  /\ Len(passes) = GLOBAL_RATE
  /\ \A i \in 1..Len(passes) : passes[i] = 0

\* C20: among the requests that passed the local limiter, any n of them in a
\* row that lie T seconds apart satisfy n <= capacity + R*T (in 1/TicksPerSec
\* of a token).
C20_LocalPassesBounded ==
  \A i, j \in 1..Len(passes) :
    i <= j => (j - i + 1) * TicksPerSec
                <= GLOBAL_RATE * TicksPerSec + GLOBAL_RATE * (passes[j] - passes[i])

\* C12: a request that passed AUTH, LOCAL_LIMIT and GLOBAL_LIMIT and whose
\* backend call gives no response is answered 502 with a detail, by the
\* gateway itself and not by an unhandled fault, and that step leaves the
\* bucket and the counter store as the admission left them.
C12_ForwardFailure502 ==
  [][ \A r \in Requests :
        (req[r].pc = "forward" /\ req'[r].pc # "forward" /\ ~Ended(last', "FORWARD"))
          => /\ last'.trace = Append(Admitted, "FORWARD_FAILED")
             /\ last'.status = 502
             /\ last'.body.fmt = "json"
             /\ ~last'.unhandled
             /\ UNCHANGED <<local_tokens, last_refill, store>>
    ]_vars
C12_Witness ==
  /\ Ended(last, "FORWARD_FAILED")
  /\ last.status = 502
  /\ local_tokens = GLOBAL_RATE - 1
  /\ \E k \in DOMAIN store : k[1] = last.header[2].sub /\ store[k].count = 1

\* C13: a request to a path that is not bypassed, with no Authorization
\* header or one that does not start with Bearer, goes no further than AUTH:
\* it is answered 401 "Missing token" in the step that receives it, and that
\* step leaves the cache, the bucket, the lock and the counter store alone.
LacksBearer(h) == h = NoHeader \/ h[1] # "Bearer"
C13_MissingToken401 ==
  [][ /\ \A r \in Requests :
           (req[r].pc = "idle" /\ req'[r].pc # "idle" /\ ~Bypassed(req'[r].path))
             => ~LacksBearer(req'[r].header)
      /\ (last' # NoResponse /\ ~Bypassed(last'.path) /\ LacksBearer(last'.header))
           => /\ last'.trace = <<"AUTH_MISSING">>
              /\ last'.status = 401
              /\ last'.body = [fmt |-> "json", data |-> "Missing token"]
              /\ UNCHANGED <<jwt_cache, local_tokens, last_refill, bucket_lock, store>>
    ]_vars
C13_Witness ==
  /\ last.trace = <<"AUTH_MISSING">>
  /\ last.header # NoHeader
  /\ last.header[1] = "Basic"
  /\ local_tokens < GLOBAL_RATE
  /\ DOMAIN store # {}

\* C14: the response relayed for a backend response has the backend's status
\* and the backend's body, whatever the body's format.
C14_ExactRelay ==
  Ended(last, "FORWARD")
    => \E resp \in BackendResponses :
         /\ last.status = resp.status
         /\ last.body = [fmt |-> resp.fmt, data |-> resp.data]

\* C16: only the paths /health and /metrics themselves are bypassed (any
\* other path goes through AUTH), and a bypassed request is answered without
\* a change of the cache, the bucket or the counter store.
AllowList == { <<"/health">>, <<"/metrics">> }
C16_OnlyAllowListBypasses ==
  [][ /\ \A r \in Requests : req'[r].pc = "bypass" => req'[r].path \in AllowList
      /\ Ended(last', "BYPASS")
           => /\ last'.path \in AllowList
              /\ UNCHANGED <<jwt_cache, local_tokens, last_refill, store>>
    ]_vars

\* C18: a request denied at GLOBAL_LIMIT is answered 429 with the
\* global-limit reason after AUTH and LOCAL_LIMIT and without a backend call;
\* its INCR raised the counter of its key by one to a value over the rate, the
\* step gives no token back, every local pass takes exactly one token, and
\* tokens come back only by the refill.
C18_GlobalRejectCounted ==
  [][ /\ Ended(last', "GLOBAL_REJECT")
           => /\ last'.trace = <<"AUTH_OK", "LOCAL_OK", "GLOBAL_REJECT">>
              /\ last'.status = 429
              /\ last'.body = [fmt |-> "json", data |-> "Too many requests (global limit)"]
              /\ local_tokens' = local_tokens
              /\ \E r \in Requests :
                   /\ req[r].pc = "incr" /\ req'[r].pc = "idle"
                   /\ req[r].key \in DOMAIN store \cap DOMAIN store'
                   /\ store'[req[r].key].count = store[req[r].key].count + 1
                   /\ store'[req[r].key].count > GLOBAL_RATE
      /\ \A r \in Requests :
           (req[r].pc = "consume" /\ req'[r].pc = "incr") => local_tokens' = local_tokens - 1
      /\ local_tokens' > local_tokens
           => \E r \in Requests : req[r].pc = "lock" /\ req'[r].pc = "consume"
    ]_vars
C18_Witness ==
  /\ Ended(last, "GLOBAL_REJECT")
  /\ last.status = 429
  /\ \E k \in DOMAIN store : store[k].count = GLOBAL_RATE + 1

\* C15: when a request brings a credential whose cache entry has not reached
\* its expiry (and the credential itself has not expired), jwt.decode is not
\* called, the cache is left as it is and the request goes on with the same
\* identity as the first time; when the credential has no entry, or an entry
\* whose expiry has come, jwt.decode is called again.
Verified(tok) ==
  /\ arrivals' # arrivals
  /\ \/ \E r \in Requests : /\ req[r].pc = "idle" /\ req'[r].pc = "lock"
                              /\ req'[r].header = <<"Bearer", tok>>
     \/ last' # NoResponse /\ last'.header = <<"Bearer", tok>>
C15_CachedVerification ==
  [][ \A tok \in Tokens :
        Verified(tok)
          => LET live == tok \in DOMAIN jwt_cache /\ now < jwt_cache[tok].expire
             IN /\ (live /\ tok.exp >= NowSec(now))
                     => /\ decodes' = decodes
                        /\ jwt_cache' = jwt_cache
                        /\ jwt_cache[tok].payload = Payload(tok)
                        /\ \E r \in Requests : /\ req[r].pc = "idle" /\ req'[r].pc = "lock"
                                                /\ req'[r].api_key = tok.sub
                /\ ~live => Count(decodes', tok) = Count(decodes, tok) + 1
    ]_vars
C15_Witness ==
  /\ arrivals = 3
  /\ now >= CacheTicks
  /\ \E tok \in Tokens : /\ DOMAIN decodes = {tok}
                          /\ decodes[tok] = 2
                          /\ tok \in DOMAIN jwt_cache
                          /\ jwt_cache[tok].expire > now

\* C17: whatever the interleaving, a request leaves the local limiter with the
\* verdict, the token count and the last_refill that main.py:104-115 gives
\* when run in one piece at the moment the request took the lock: the
\* execution equals the serial one in the order of the lock.
C17_RefillConsumeAtomic ==
  [][ \A r \in Requests :
        (req[r].pc = "consume" /\ req'[r].pc # "consume")
          => /\ (req'[r].pc = "incr") = req[r].serial[1]
             /\ local_tokens' = req[r].serial[2]
             /\ last_refill' = req[r].serial[3]
    ]_vars
C17_Witness ==
  \E r1, r2 \in Requests :
    /\ req[r1].pc = "consume" /\ bucket_lock = r1
    /\ req[r2].pc = "lock"
    /\ req[r1].serial[3] > 0
    /\ now > req[r1].now

====
